---- MODULE Spec2Model ----
(***************************************************************************)
(* pg_normalize_query: replace the literal constants of a SQL statement by *)
(* $n placeholders.  The model follows src/pg_normalize_query.c:           *)
(*   pgnq_const_record_walker / pgnq_record_const_location  (the locator)  *)
(*   pgnq_fill_in_constant_lengths                          (the resolver) *)
(*   pgnq_build_normalized_query                            (the builder)  *)
(* The parser and the core scanner are PostgreSQL's; they are modelled by  *)
(* their contract: a tree whose A_Const nodes carry byte offsets, and a    *)
(* token stream over a small alphabet lexed with the core scanner's rules. *)
(* Text offsets are 0-based as in C; the byte at offset o of a text t is   *)
(* t[o + 1].                                                               *)
(***************************************************************************)
EXTENDS Integers, Sequences, FiniteSets, TLC

\* ------------------------------------------------------------------ bounds
\* Size of a statement: its text pieces, plus one per A_Const node and per
\* constant node referenced twice, two per ParamRef node, and three for a
\* statement that is not a plain SelectStmt.
MaxSize == 5
\* For the statements of SpecLocations (plain SelectStmts without ParamRefs):
\* the number of text pieces and of A_Const nodes.
MaxPieces == 3
MaxConsts == 3

\* ------------------------------------------------------- program constants
\* INT_MAX of the 32-bit signed int that holds placeholder numbers.
IntMax == 2147483647
IntMin == -IntMax - 1
\* jstate.clocations_buf_size on entry.
InitialBufSize == 32
\* Bytes allowed per record on top of the query length.
BytesPerRecord == 10

NULL == 0
NUL == "\\0"

\* ------------------------------------------------------------------- text
CharAt(text, o) == IF o >= 0 /\ o < Len(text) THEN text[o + 1] ELSE NUL

RECURSIVE Concat(_)
Concat(ss) == IF ss = <<>> THEN <<>> ELSE Head(ss) \o Concat(Tail(ss))

\* text[from .. to-1], the bytes memcpy(dst, text + from, to - from) copies
Slice(text, from, to) == SubSeq(text, from + 1, to)

\* --------------------------------------------------------- the core scanner
scanner_isspace(c) == c = " "
IsDigit(c) == c = "1"
IsIdentStart(c) == c \in {"a", "U"}
IsIdentCont(c) == IsIdentStart(c) \/ IsDigit(c)
IsOpChar(c) == c \in {"-", "&"}
IsQuote(c) == c = "'"

RECURSIVE EndSpaces(_, _)
EndSpaces(text, o) ==
    IF scanner_isspace(CharAt(text, o)) THEN EndSpaces(text, o + 1) ELSE o

RECURSIVE EndDigits(_, _)
EndDigits(text, o) ==
    IF IsDigit(CharAt(text, o)) THEN EndDigits(text, o + 1) ELSE o

RECURSIVE EndIdent(_, _)
EndIdent(text, o) ==
    IF IsIdentCont(CharAt(text, o)) THEN EndIdent(text, o + 1) ELSE o

RECURSIVE EndOp(_, _)
EndOp(text, o) ==
    IF IsOpChar(CharAt(text, o)) THEN EndOp(text, o + 1) ELSE o

\* From an offset inside a quoted string: the offset just after the closing
\* quote ('' is an embedded quote), or -1 when the string is unterminated.
RECURSIVE EndQuoted(_, _)
EndQuoted(text, o) ==
    IF o >= Len(text) THEN -1
    ELSE IF IsQuote(CharAt(text, o))
         THEN IF IsQuote(CharAt(text, o + 1))
              THEN EndQuoted(text, o + 2)
              ELSE o + 1
         ELSE EndQuoted(text, o + 1)

\* A "--" starts a comment; the lexer model leaves comments out, and the
\* statements of the model hold none.
RECURSIVE HasComment(_, _)
HasComment(text, o) ==
    IF o + 1 >= Len(text) THEN FALSE
    ELSE (CharAt(text, o) = "-" /\ CharAt(text, o + 1) = "-")
         \/ HasComment(text, o + 1)

\* One core_yylex call with the scanner positioned at offset o: the token's
\* kind, its start (yylloc), the end of its text, and the offset where flex
\* has put the zero byte when it returns (after the token; for a U&'...'
\* string after the whitespace the scanner ate looking for UESCAPE).
core_yylex(text, o) ==
    LET s == EndSpaces(text, o)
        c == CharAt(text, s)
    IN  IF s >= Len(text)
        THEN [kind |-> "eof", start |-> s, end |-> s, nul |-> s]
        ELSE IF (c = "U" /\ CharAt(text, s + 1) = "&" /\ IsQuote(CharAt(text, s + 2)))
        THEN LET e == EndQuoted(text, s + 3)
             IN  IF e < 0
                 THEN [kind |-> "err", start |-> s, end |-> s, nul |-> s]
                 ELSE [kind |-> "ustr", start |-> s, end |-> e,
                       nul |-> EndSpaces(text, e)]
        ELSE IF IsQuote(c)
        THEN LET e == EndQuoted(text, s + 1)
             IN  IF e < 0
                 THEN [kind |-> "err", start |-> s, end |-> s, nul |-> s]
                 ELSE [kind |-> "str", start |-> s, end |-> e, nul |-> e]
        ELSE IF IsDigit(c)
        THEN [kind |-> "int", start |-> s, end |-> EndDigits(text, s),
              nul |-> EndDigits(text, s)]
        ELSE IF IsIdentStart(c)
        THEN [kind |-> "ident", start |-> s, end |-> EndIdent(text, s),
              nul |-> EndIdent(text, s)]
        ELSE [kind |-> "op", start |-> s, end |-> EndOp(text, s),
              nul |-> EndOp(text, s)]

\* The whole token stream of a text from offset o, the end-of-input (or the
\* lexical error) excluded.
RECURSIVE TokensFrom(_, _)
TokensFrom(text, o) ==
    LET t == core_yylex(text, o)
    IN  IF t.kind \in {"eof", "err"} THEN <<>>
        ELSE <<t>> \o TokensFrom(text, t.nul)

Tokens(text) == TokensFrom(text, 0)

RECURSIVE LexFails(_, _)
LexFails(text, o) ==
    LET t == core_yylex(text, o)
    IN  IF t.kind = "err" THEN TRUE
        ELSE IF t.kind = "eof" THEN FALSE
        ELSE LexFails(text, t.nul)

\* raw_parser(sql) returned: the text lexes to the end.
Parsable(text) == ~LexFails(text, 0)

\* ---------------------------------------------------------------- the tree
\* A node is [tag, inner, kids, location, number]: inner is the designated
\* field of a pass-through wrapper (NULL when empty), kids the node's other
\* child fields in order, location an A_Const's offset, number a ParamRef's.
WrapperTags == {"DefElem", "RawStmt", "VariableSetStmt", "CopyStmt",
                "ExplainStmt", "AlterRoleStmt", "DeclareCursorStmt"}

Node(tag, inner, kids, location, number) ==
    [tag |-> tag, inner |-> inner, kids |-> kids,
     location |-> location, number |-> number]

\* ------------------------------------------------------------- the locator
\* (a record whose length starts at 0)
NewRecordZero(location) == [location |-> location, length |-> 0]

\* clocations[count].location = location; clocations[count].length = -1
NewRecord(location) == [location |-> location, length |-> -1]

pgnq_record_const_location(st, location) ==
    IF location >= 0
    THEN [st EXCEPT
            !.clocations_buf_size =
                IF Len(st.clocations) >= @ THEN @ * 2 ELSE @,
            !.clocations = Append(@, NewRecord(location))]
    ELSE st

UpdateHighest(highest, number) ==
    IF number > highest THEN number ELSE highest

\* The field the switch of the walker picks for a node (nodeReturn).
NodeReturn(node) ==
    IF node.tag \in WrapperTags THEN node.inner ELSE NULL

\* Every child field of a node, in order: what generic recursion visits.
AllChildren(node) ==
    (IF node.inner # NULL THEN <<node.inner>> ELSE <<>>) \o node.kids

\* pgnq_const_record_walker(node, jstate) and raw_expression_tree_walker's
\* calls back into it.  st.generic collects the nodes handed to
\* raw_expression_tree_walker, st.visited the nodes the walker was called on.
RECURSIVE pgnq_const_record_walker(_, _, _), raw_expression_tree_walker(_, _, _)
pgnq_const_record_walker(t, n, st) ==
    IF n = NULL THEN st
    ELSE LET node == t[n]
             seen == [st EXCEPT !.visited = Append(@, n)]
             st1 == CASE node.tag = "A_Const" ->
                           pgnq_record_const_location(seen, node.location)
                      [] node.tag = "ParamRef" ->
                           [seen EXCEPT !.highest_extern_param_id =
                                            UpdateHighest(@, node.number)]
                      [] OTHER -> seen
             nodeReturn == NodeReturn(node)
         IN  IF nodeReturn # NULL
             THEN pgnq_const_record_walker(t, nodeReturn, st1)
             ELSE raw_expression_tree_walker(
                      t, AllChildren(node),
                      [st1 EXCEPT !.generic = @ \cup {n}])

raw_expression_tree_walker(t, children, st) ==
    IF children = <<>> THEN st
    ELSE raw_expression_tree_walker(
             t, Tail(children),
             pgnq_const_record_walker(t, Head(children), st))

\* ------------------------------------------------------------ the resolver
\* qsort(clocations, ..., pgnq_comp_location): ascending by location.
pgnq_comp_location(a, b) ==
    IF a.location < b.location THEN -1
    ELSE IF a.location > b.location THEN 1 ELSE 0

RECURSIVE InsertSorted(_, _)
InsertSorted(r, sorted) ==
    IF sorted = <<>> THEN <<r>>
    ELSE IF pgnq_comp_location(r, Head(sorted)) < 0
         THEN <<r>> \o sorted
         ELSE <<Head(sorted)>> \o InsertSorted(r, Tail(sorted))

RECURSIVE SortByLocation(_)
SortByLocation(locs) ==
    IF locs = <<>> THEN <<>>
    ELSE InsertSorted(locs[Len(locs)], SortByLocation(SubSeq(locs, 1, Len(locs) - 1)))

\* yyextra.scanbuf while the token ending at offset nul is current: the
\* text with a zero byte put at nul.
ScanBuf(text, nul) ==
    [o \in 1..Len(text) |-> IF o = nul + 1 THEN NUL ELSE text[o]]

RECURSIVE strlen(_, _)
strlen(buf, o) == IF CharAt(buf, o) = NUL THEN 0 ELSE 1 + strlen(buf, o + 1)

\* The loop that steps j back over trailing whitespace.
RECURSIVE TrimIndex(_, _, _)
TrimIndex(buf, loc, j) ==
    IF j >= 0 /\ scanner_isspace(CharAt(buf, loc + j))
    THEN TrimIndex(buf, loc, j - 1)
    ELSE j

IsUnicodeQuoted(buf, loc, length) ==
    /\ length > 4
    /\ CharAt(buf, loc) \in {"u", "U"}
    /\ CharAt(buf, loc + 1) = "&"
    /\ IsQuote(CharAt(buf, loc + 2))

\* locs[i].length once the token ending at nul is the current one.
ConstantLength(text, loc, nul) ==
    LET buf == ScanBuf(text, nul)
        length == strlen(buf, loc)
    IN  IF IsUnicodeQuoted(buf, loc, length)
        THEN TrimIndex(buf, loc, length - 1) + 1
        ELSE length

\* The inner for(;;): the number of the core_yylex call that returns the
\* first token at or after loc; Len(toks) + 1 is the call that returns 0.
RECURSIVE FindToken(_, _, _)
FindToken(toks, k, loc) ==
    IF k + 1 > Len(toks) THEN k + 1
    ELSE IF toks[k + 1].start >= loc THEN k + 1
    ELSE FindToken(toks, k + 1, loc)

IsDuplicate(loc, last_loc) == loc <= last_loc

\* (a resolver that never merges the sign)
StartsNegativeNever(text, loc) == FALSE

\* query[loc] == '-'
StartsNegative(text, loc) == CharAt(text, loc) = "-"

\* The outer for loop from record i on.  k counts the core_yylex calls made
\* so far, errAt is the call that raises an error (0: none does).  The
\* result holds the records, the calls made, the calls made for each record,
\* and how the function was left: "return" (scanner_finish was called) or
\* "error" (the error left the function at the failing call).
RECURSIVE FillLoop(_, _, _, _, _, _, _, _)
FillLoop(locs, i, k, last_loc, pulled, text, toks, errAt) ==
    IF i > Len(locs)
    THEN [locs |-> locs, pulls |-> k, pulled |-> pulled, exit |-> "return"]
    ELSE LET loc == locs[i].location
         IN  IF IsDuplicate(loc, last_loc)
             THEN FillLoop(locs, i + 1, k, last_loc, Append(pulled, 0),
                           text, toks, errAt)
             ELSE
             LET m == FindToken(toks, k, loc)
                 found == m <= Len(toks)
                 minus == found /\ StartsNegative(text, loc)
                 last == IF minus THEN m + 1 ELSE m
                 eof == last > Len(toks)
             IN  IF errAt > k /\ errAt <= last
                 THEN [locs |-> locs, pulls |-> errAt,
                       pulled |-> Append(pulled, errAt - k), exit |-> "error"]
                 ELSE IF eof
                 THEN [locs |-> locs, pulls |-> last,
                       pulled |-> Append(pulled, last - k), exit |-> "return"]
                 ELSE FillLoop(
                        [locs EXCEPT ![i].length =
                            ConstantLength(text, loc, toks[last].nul)],
                        i + 1, last, loc, Append(pulled, last - k),
                        text, toks, errAt)

pgnq_fill_in_constant_lengths(clocations, text, errAt) ==
    FillLoop(IF Len(clocations) > 1 THEN SortByLocation(clocations)
             ELSE clocations,
             1, 0, -1, <<>>, text, Tokens(text), errAt)

\* ------------------------------------------------------------- the builder
\* a + b in 32-bit signed arithmetic (the build's -fwrapv), for b >= 0.
Add32(a, b) ==
    IF a > IntMax - b THEN (a - IntMax) + (b - IntMax) - 2 ELSE a + b

RECURSIVE DigitsOf(_)
DigitsOf(n) ==
    LET d == <<"0", "1", "2", "3", "4", "5", "6", "7", "8", "9">>[(n % 10) + 1]
    IN  IF n < 10 THEN <<d>> ELSE DigitsOf(n \div 10) \o <<d>>

\* The text "%d" prints for a 32-bit n.
Decimal(n) ==
    IF n >= 0 THEN DigitsOf(n)
    ELSE LET r == n % 10
             q == n \div 10
             lastDigit == (10 - r) % 10
             rest == -(q + (IF r > 0 THEN 1 ELSE 0))
         IN  <<"-">> \o (IF rest = 0 THEN <<>> ELSE DigitsOf(rest))
                     \o DigitsOf(lastDigit)

\* sprintf(..., "$%d", n)
ParamSymbol(n) == <<"$">> \o Decimal(n)

\* The number printed for the record at C index i.
ParamNumber(i, highest) == Add32(Add32(i, 1), highest)

Max(a, b) == IF a > b THEN a ELSE b

\* The for loop of the builder from the record at C index i on.  b holds the
\* locals, the bytes written so far (out), the numbers printed (nums), the
\* offsets the placeholders were written at (at), the highest buffer index
\* written (maxw) and the Assert that failed ("" while none has).
RECURSIVE BuildLoop(_, _, _, _, _, _)
BuildLoop(locs, i, b, text, query_loc, highest) ==
    IF i >= Len(locs) THEN b
    ELSE LET off == locs[i + 1].location - query_loc
             tok_len == locs[i + 1].length
             len_to_wrt == (off - b.last_off) - b.last_tok_len
             sym == ParamSymbol(ParamNumber(i, highest))
             copied == b.out \o Slice(text, b.quer_loc, b.quer_loc + len_to_wrt)
         IN  IF tok_len < 0
             THEN BuildLoop(locs, i + 1, b, text, query_loc, highest)
             ELSE IF len_to_wrt < 0
             THEN [b EXCEPT !.failed = "len_to_wrt"]
             ELSE BuildLoop(locs, i + 1,
                    [b EXCEPT !.out = copied \o sym,
                              !.n_quer_loc = Len(copied) + Len(sym),
                              !.nums = Append(@, ParamNumber(i, highest)),
                              !.at = Append(@, Len(copied)),
                              !.maxw = Max(@, Len(copied) + Len(sym)),
                              !.quer_loc = off + tok_len,
                              !.last_off = off,
                              !.last_tok_len = tok_len],
                    text, query_loc, highest)

\* pgnq_build_normalized_query after the lengths are filled in: the loop,
\* the copy of the tail and the terminator.
BuildNormalizedQuery(locs, text, query_loc, query_len, highest) ==
    LET buflen == query_len + Len(locs) * BytesPerRecord
        b0 == [quer_loc |-> 0, n_quer_loc |-> 0, last_off |-> 0,
               last_tok_len |-> 0, out |-> <<>>, nums |-> <<>>, at |-> <<>>,
               maxw |-> -1, failed |-> "", buflen |-> buflen]
        b == BuildLoop(locs, 0, b0, text, query_loc, highest)
        len_to_wrt == query_len - b.quer_loc
        out == b.out \o Slice(text, b.quer_loc, b.quer_loc + len_to_wrt)
    IN  IF b.failed # "" THEN b
        ELSE IF len_to_wrt < 0 THEN [b EXCEPT !.failed = "len_to_wrt"]
        ELSE [b EXCEPT !.out = out,
                       !.n_quer_loc = Len(out),
                       !.maxw = Max(@, Len(out)),
                       !.failed = IF Len(out) > buflen THEN "buflen" ELSE ""]

\* --------------------------------------------------------------- the inputs
\* Statement texts are built from these pieces; the scanner lexes the
\* concatenation byte by byte.
Pieces == {<<"a">>, <<" ">>, <<"1">>, <<"-">>, <<"U", "&", "'", "'">>}

SeqsOfLen(S, n) == [1..n -> S]

\* ParamRef numbers: $3 and the largest the scanner accepts.
ParamNumbers == {3, IntMax}

\* A_Const locations: any offset into the text, or -1 (unknown).
ConstLocations(text) == -1..(Len(text) - 1)

DefaultVariant == [tag |-> "SelectStmt", present |-> TRUE]

\* The statement under the top-level RawStmt: a SelectStmt, or a pass-through
\* wrapper whose designated field is set or empty; [RawStmt, FALSE] is a
\* RawStmt with no statement.
Variants ==
    {DefaultVariant}
    \cup ({[tag |-> w, present |-> b] : w \in WrapperTags, b \in BOOLEAN}
          \ {[tag |-> "RawStmt", present |-> TRUE]})

\* The tree raw_parser returns: List(RawStmt(stmt)).  Node 4 is the list of
\* expressions of the statement: the ParamRefs, then the A_Consts (the first
\* one referenced twice when shared); node 5 is a wrapper's other child.
MkTree(v, params, consts, shared) ==
    LET np == Len(params)
        nc == Len(consts)
        paramIds == [k \in 1..np |-> 5 + k]
        constIds == [k \in 1..nc |-> 5 + np + k]
        leaves == paramIds
                  \o (IF shared /\ nc > 0 THEN <<constIds[1]>> ELSE <<>>)
                  \o constIds
        stmt == IF v.tag \in WrapperTags \ {"RawStmt"}
                THEN Node(v.tag, IF v.present THEN 4 ELSE NULL, <<5>>, -1, 0)
                ELSE Node("SelectStmt", NULL, <<4>>, -1, 0)
    IN  [n \in 1..(5 + np + nc) |->
            CASE n = 1 -> Node("List", NULL, <<2>>, -1, 0)
              [] n = 2 -> Node("RawStmt",
                               IF v.tag = "RawStmt" /\ ~v.present THEN NULL ELSE 3,
                               <<>>, -1, 0)
              [] n = 3 -> stmt
              [] n = 4 -> Node("List", NULL, leaves, -1, 0)
              [] n = 5 -> Node("RangeVar", NULL, <<>>, -1, 0)
              [] n > 5 /\ n <= 5 + np -> Node("ParamRef", NULL, <<>>, -1, params[n - 5])
              [] OTHER -> Node("A_Const", NULL, <<>>, consts[n - 5 - np], 0)]

Root == 1

VariantSize(v) == IF v = DefaultVariant THEN 0 ELSE 3

ParamSize(params) == 2 * Len(params)

\* ----------------------------------------------------------------- the state
VARIABLES
    pc,                       \* where pg_normalize_query is
    query,                    \* sql
    tree,                     \* raw_parser(sql)
    clocations,               \* jstate.clocations[0 .. clocations_count - 1]
    clocations_buf_size,      \* jstate.clocations_buf_size
    highest_extern_param_id,  \* jstate.highest_extern_param_id
    generic,                  \* nodes handed to raw_expression_tree_walker
    visited,                  \* nodes the walker was called on, in order
    scanner,                  \* calls of scanner_init, core_yylex, scanner_finish
    norm_query,               \* bytes written to norm_query
    norm_query_buflen,
    built                     \* what the builder did: numbers, offsets, writes

vars == <<pc, query, tree, clocations, clocations_buf_size,
          highest_extern_param_id, generic, visited, scanner,
          norm_query, norm_query_buflen, built>>

NoScanner == [inits |-> 0, finishes |-> 0, pulls |-> 0, pulled |-> <<>>]
NotBuilt == [nums |-> <<>>, at |-> <<>>, maxw |-> -1, failed |-> "",
             n_quer_loc |-> 0]

\* sql has been parsed into t and the workspace set up (no record, highest
\* id 0).  Statements with a comment are left out (see HasComment).
Start(text, t) ==
    /\ ~HasComment(text, 0)
    /\ Parsable(text)
    /\ query = text
    /\ tree = t
    /\ pc = "walk"
    /\ clocations = <<>>
    /\ clocations_buf_size = InitialBufSize
    /\ highest_extern_param_id = 0
    /\ generic = {}
    /\ visited = <<>>
    /\ scanner = NoScanner
    /\ norm_query = <<>>
    /\ norm_query_buflen = 0
    /\ built = NotBuilt

\* Every statement of size at most MaxSize.
Init ==
    \E np \in 0..MaxSize :
    \E pieces \in SeqsOfLen(Pieces, np) :
    \E text \in {Concat(pieces)} :
    \E nc \in 0..(MaxSize - np) :
    \E consts \in SeqsOfLen(ConstLocations(text), nc) :
    \E nr \in 0..(MaxSize - np - nc) :
    \E params \in SeqsOfLen(ParamNumbers, nr) :
    \E shared \in BOOLEAN, v \in Variants :
        /\ ParamSize(params) + (IF shared THEN 1 ELSE 0) + VariantSize(v)
              <= MaxSize - np - nc
        /\ shared => nc > 0
        /\ Start(text, MkTree(v, params, consts, shared))

\* Every plain SelectStmt without ParamRefs of at most MaxPieces text pieces
\* and MaxConsts A_Const nodes.
InitLocations ==
    \E np \in 0..MaxPieces :
    \E pieces \in SeqsOfLen(Pieces, np) :
    \E text \in {Concat(pieces)} :
    \E nc \in 0..MaxConsts :
    \E consts \in SeqsOfLen(ConstLocations(text), nc) :
        Start(text, MkTree(DefaultVariant, <<>>, consts, FALSE))

\* pgnq_const_record_walker((Node *) tree, &jstate)
Walk ==
    /\ pc = "walk"
    /\ \E st \in {pgnq_const_record_walker(
                    tree, Root,
                    [clocations |-> clocations,
                     clocations_buf_size |-> clocations_buf_size,
                     highest_extern_param_id |-> highest_extern_param_id,
                     generic |-> generic, visited |-> visited])} :
           /\ clocations' = st.clocations
           /\ clocations_buf_size' = st.clocations_buf_size
           /\ highest_extern_param_id' = st.highest_extern_param_id
           /\ generic' = st.generic
           /\ visited' = st.visited
    /\ pc' = "fill"
    /\ UNCHANGED <<query, tree, scanner, norm_query, norm_query_buflen, built>>

\* pgnq_fill_in_constant_lengths(jstate, query); the call of core_yylex
\* numbered errAt raises an error (0: none), which leaves the function.
FillIn ==
    /\ pc = "fill"
    /\ \E errAt \in 0..(Len(Tokens(query)) + 1) :
       \E r \in {pgnq_fill_in_constant_lengths(clocations, query, errAt)} :
            /\ clocations' = r.locs
            /\ scanner' = [inits |-> 1,
                           finishes |-> IF r.exit = "return" THEN 1 ELSE 0,
                           pulls |-> r.pulls, pulled |-> r.pulled]
            /\ pc' = IF r.exit = "return" THEN "build" ELSE "error"
    /\ UNCHANGED <<query, tree, clocations_buf_size, highest_extern_param_id,
                   generic, visited, norm_query, norm_query_buflen, built>>

\* The rest of pgnq_build_normalized_query(&jstate, sql, 0, &query_len), in
\* a build with Asserts (cassert) or without.  A negative len_to_wrt stops
\* at the Assert, or in memcpy without it; an output longer than the buffer
\* stops at the last Assert, or is returned without it.
Build ==
    /\ pc = "build"
    /\ \E cassert \in BOOLEAN :
       \E b \in {BuildNormalizedQuery(clocations, query, 0, Len(query),
                                      highest_extern_param_id)} :
            /\ norm_query' = b.out
            /\ norm_query_buflen' = b.buflen
            /\ built' = [nums |-> b.nums, at |-> b.at, maxw |-> b.maxw,
                         failed |-> b.failed, n_quer_loc |-> b.n_quer_loc]
            /\ pc' = CASE b.failed = "" -> "done"
                       [] b.failed = "len_to_wrt" ->
                            IF cassert THEN "abort" ELSE "crash"
                       [] OTHER -> IF cassert THEN "abort" ELSE "done"
    /\ UNCHANGED <<query, tree, clocations, clocations_buf_size,
                   highest_extern_param_id, generic, visited, scanner>>

Next == Walk \/ FillIn \/ Build

Spec == Init /\ [][Next]_vars

SpecLocations == InitLocations /\ [][Next]_vars

\* ------------------------------------------------------------ the claims
\* The resolver returned (scanner_finish was reached).
Returned == pc \in {"build", "done", "abort", "crash"}
\* The builder ran: it returned the string, or stopped at an Assert or in
\* memcpy.
Finished == pc \in {"done", "abort", "crash"}

IsEmitted(r) == r.length >= 0
Emitted == SelectSeq(clocations, IsEmitted)

\* The scanner returned end-of-input to the resolver (its last call).
SoftFailure == Returned /\ scanner.pulls = Len(Tokens(query)) + 1

\* text with each span replaced by its symbol, everything else copied.
RECURSIVE ReplaceFrom(_, _, _, _, _)
ReplaceFrom(text, spans, syms, k, from) ==
    IF k > Len(spans) THEN Slice(text, from, Len(text))
    ELSE Slice(text, from, spans[k].location) \o syms[k]
         \o ReplaceFrom(text, spans, syms, k + 1,
                        spans[k].location + spans[k].length)

ReplaceSpans(text, spans, syms) == ReplaceFrom(text, spans, syms, 1, 0)

Symbols(nums) == [k \in 1..Len(nums) |-> ParamSymbol(nums[k])]

\* The records of a list of locations, as the locator leaves them.
Records(locations) == [k \in 1..Len(locations) |-> NewRecord(locations[k])]

\* The locations of a record list without repetitions, in order.
RECURSIVE DistinctLocations(_)
DistinctLocations(locs) ==
    IF locs = <<>> THEN <<>>
    ELSE LET rest == DistinctLocations(SubSeq(locs, 1, Len(locs) - 1))
             l == locs[Len(locs)].location
         IN  IF \E k \in 1..Len(rest) : rest[k] = l THEN rest
             ELSE Append(rest, l)

\* The nodes of the tree: those reachable from the root.
RECURSIVE Reachable(_, _)
Reachable(t, n) ==
    IF n = NULL THEN {}
    ELSE {n} \cup UNION {Reachable(t, AllChildren(t[n])[k]) :
                            k \in 1..Len(AllChildren(t[n]))}

TreeNodes == Reachable(tree, Root)
ParamRefs == {n \in TreeNodes : tree[n].tag = "ParamRef"}
Consts == {n \in TreeNodes : tree[n].tag = "A_Const"}

\* C1: the k-th placeholder the builder emits is numbered
\* highest_param_id + k (in the int arithmetic of the code), whatever
\* duplicate or unresolved records lie before or between the emitted ones.
C1_ContiguousNumbers ==
    Finished =>
        \A k \in 1..Len(built.nums) :
            built.nums[k] = ParamNumber(k - 1, highest_extern_param_id)

\* ---- C2
\* The literal constant that starts at loc: the offset where it ends (a
\* number, a quoted string, or a '-' with the number after it), -1 when no
\* literal starts there.
LiteralEnd(text, loc) ==
    LET toks == Tokens(text)
        ks == {k \in 1..Len(toks) : toks[k].start = loc}
    IN  IF ks = {} THEN -1
        ELSE LET k == CHOOSE x \in ks : TRUE
             IN  IF toks[k].kind \in {"int", "str", "ustr"} THEN toks[k].end
                 ELSE IF /\ toks[k].kind = "op"
                         /\ toks[k].end = loc + 1
                         /\ CharAt(text, loc) = "-"
                         /\ k < Len(toks)
                         /\ toks[k + 1].kind = "int"
                 THEN toks[k + 1].end
                 ELSE -1

\* The literals of a text at the given (distinct, ascending) locations.
Extents(text, locations) ==
    [k \in 1..Len(locations) |->
        [location |-> locations[k],
         length |-> LiteralEnd(text, locations[k]) - locations[k]]]

\* Every location is the start of a literal and no literal lies in another.
LiteralsAt(text, locations) ==
    /\ \A k \in 1..Len(locations) : LiteralEnd(text, locations[k]) >= 0
    /\ \A k \in 1..(Len(locations) - 1) :
          LiteralEnd(text, locations[k]) <= locations[k + 1]

\* The token sequence of a text, each literal counted as one token "LIT".
TokenShape(text, extents) ==
    LET toks == Tokens(text)
        In(t, e) == /\ e.location <= t.start
                    /\ t.start < e.location + e.length
        item(t) ==
            IF \E k \in 1..Len(extents) : t.start = extents[k].location
            THEN <<"LIT">>
            ELSE IF \E k \in 1..Len(extents) : In(t, extents[k])
            THEN <<>>
            ELSE <<Slice(text, t.start, t.end)>>
    IN  Concat([k \in 1..Len(toks) |-> item(toks[k])])

\* Forms a literal may take: value, byte length and sign differ.
LiteralForms ==
    {<<"1">>, <<"1", "1">>, <<"-", "1">>, <<"-", " ", "1">>,
     <<"'", "a", "'">>, <<"U", "&", "'", "'">>, <<"U", "&", "'", "a", "'">>}

\* Where the k-th literal starts once the literals before it are replaced
\* by the forms f.
RECURSIVE NewLocation(_, _, _)
NewLocation(extents, f, k) ==
    IF k = 1 THEN extents[1].location
    ELSE NewLocation(extents, f, k - 1) + Len(f[k - 1])
         + (extents[k].location
            - (extents[k - 1].location + extents[k - 1].length))

NewExtents(extents, f) ==
    [k \in 1..Len(extents) |->
        [location |-> NewLocation(extents, f, k), length |-> Len(f[k])]]

\* The second statement: the same text with other literals; it has the same
\* token sequence when its literals lex as literals where they stand and
\* every other token is unchanged.
SameShape(text, extents, f) ==
    LET text2 == ReplaceSpans(text, extents, f)
        ext2 == NewExtents(extents, f)
    IN  /\ ~HasComment(text2, 0)
        /\ Parsable(text2)
        /\ \A k \in 1..Len(ext2) :
              LiteralEnd(text2, ext2[k].location)
                  = ext2[k].location + ext2[k].length
        /\ TokenShape(text2, ext2) = TokenShape(text, extents)

\* The records of the second statement: each record moved to where its
\* literal now starts.
MovedRecords(locs, extents, f) ==
    [i \in 1..Len(locs) |->
        NewRecord(NewLocation(extents, f,
            CHOOSE k \in 1..Len(extents) :
                extents[k].location = locs[i].location))]

\* What normalize writes for a text and its records.
Normalized(text, recs, highest) ==
    BuildNormalizedQuery(pgnq_fill_in_constant_lengths(recs, text, 0).locs,
                         text, 0, Len(text), highest)

\* Every record of the statement is at a literal.
LiteralStatement ==
    /\ clocations # <<>>
    /\ LiteralsAt(query, DistinctLocations(clocations))

HasDuplicates == \E i, j \in 1..Len(clocations) :
                    i # j /\ clocations[i].location = clocations[j].location

\* C3: when an offset is recorded more than once, exactly one of the equal
\* records gets a length, the others keep -1 and no token is pulled for
\* them, so one placeholder is emitted for the constant and the output is
\* the output of the statement with each offset recorded once.  (Stated for
\* the runs in which the scanner never ran out of input.)
C3_DuplicateCollapse ==
    (pc = "done" /\ HasDuplicates /\ ~SoftFailure) =>
        /\ \A i \in 1..Len(clocations) :
              LET same == {j \in 1..Len(clocations) :
                              clocations[j].location = clocations[i].location}
              IN  /\ Cardinality({j \in same : clocations[j].length > 0}) = 1
                  /\ \A j \in same :
                        clocations[j].length <= 0 =>
                            clocations[j].length = -1 /\ scanner.pulled[j] = 0
        /\ Len(built.nums) = Len(DistinctLocations(clocations))
        /\ norm_query = Normalized(query,
                                   Records(DistinctLocations(clocations)),
                                   highest_extern_param_id).out

\* ---- C4
RECURSIVE MaxOf(_)
MaxOf(S) == IF S = {} THEN 0
            ELSE LET x == CHOOSE y \in S : TRUE
                 IN  Max(x, MaxOf(S \ {x}))

\* C4: after the locator pass highest_param_id is the largest number of the
\* ParamRef nodes of the tree (0 without any), and every placeholder the
\* builder emits has a number above it, so none has the number of a
\* parameter of the statement and no two have the same number.
C4_NoCollision ==
    /\ pc # "walk" =>
          highest_extern_param_id = MaxOf({tree[n].number : n \in ParamRefs})
    /\ Finished =>
          /\ \A k \in 1..Len(built.nums) :
                /\ built.nums[k] > highest_extern_param_id
                /\ \A n \in ParamRefs : built.nums[k] # tree[n].number
          /\ \A j, k \in 1..Len(built.nums) :
                j # k => built.nums[j] # built.nums[k]

\* C5: the builder writes at most query_len + 10 * clocations_count bytes
\* before the terminator, for any highest_param_id an int holds: the final
\* Assert holds and no write lands after the last byte of the buffer.
C5_BufferBound ==
    Finished =>
        /\ built.n_quer_loc <= norm_query_buflen
        /\ built.maxw <= norm_query_buflen

\* ---- C6
\* The record the resolver was looking for when the scanner ran out.
FailedRecord == Len(scanner.pulled)

\* C6: when the scanner returns end-of-input while the resolver looks for a
\* record's token, that record and the later ones keep length -1, the
\* records resolved before keep theirs, and normalize returns the text with
\* the earlier constants replaced and the rest copied unchanged.
C6_SoftFailure ==
    SoftFailure =>
        /\ \A j \in FailedRecord..Len(clocations) : clocations[j].length = -1
        /\ \A j \in 1..(FailedRecord - 1) :
              \/ clocations[j].length > 0
              \/ /\ clocations[j].length = -1
                 /\ j > 1
                 /\ clocations[j - 1].location = clocations[j].location
        /\ Finished =>
              /\ pc = "done"
              /\ Len(built.nums) = Len(Emitted)
              /\ norm_query = ReplaceSpans(query, Emitted, Symbols(built.nums))

\* C7: the walker never hands a pass-through wrapper node to generic
\* recursion, whether its designated field is set or empty.
C7_WrappersNeverGeneric ==
    pc # "walk" =>
        \A n \in generic : tree[n].tag \notin WrapperTags

\* C8: after the resolver returns, every record's length is positive or -1.
C8_LengthPositiveOrIgnored ==
    Returned =>
        \A i \in 1..Len(clocations) :
            clocations[i].length > 0 \/ clocations[i].length = -1

\* The records were not recorded in order, one is a U&'' literal whose
\* length was cut back over the whitespace after it, one stays unresolved.
C8_Witness ==
    /\ Returned
    /\ \E m, n \in Consts : m < n /\ tree[m].location > tree[n].location
                            /\ tree[n].location >= 0
    /\ \E i \in 1..Len(clocations) :
          LET loc == clocations[i].location
          IN  /\ clocations[i].length = 4
              /\ CharAt(query, loc) = "U"
              /\ CharAt(query, loc + 1) = "&"
              /\ scanner_isspace(CharAt(query, loc + 4))
    /\ \E i \in 1..Len(clocations) : clocations[i].length = -1

\* C9: once scanner_init was called, the resolver calls scanner_finish
\* exactly once however it is left: the loop completed, end-of-input, or an
\* error raised by a token pull.
C9_ScannerReleased ==
    (scanner.inits = 1 /\ pc # "fill") => scanner.finishes = 1

\* C10: the spans of the emitted records never overlap and never pass the
\* end of the text, so no copy length of the builder is negative.
C10_SpansDisjoint ==
    /\ Returned =>
          /\ \A k \in 1..(Len(Emitted) - 1) :
                Emitted[k + 1].location
                    >= Emitted[k].location + Emitted[k].length
          /\ Emitted # <<>> =>
                Emitted[Len(Emitted)].location + Emitted[Len(Emitted)].length
                    <= Len(query)
    /\ Finished => built.failed # "len_to_wrt"

====
